---------------------------- MODULE Spec2Model ----------------------------
(***************************************************************************)
(* A model of dokuwikixmlrpc.py: the DokuWikiClient wrapper around the     *)
(* XML-RPC interface of a remote DokuWiki, and the command-line front end  *)
(* (main / Callback) built on optparse.                                    *)
(*                                                                         *)
(* Two specifications are given.  SpecClient drives the library: a caller  *)
(* constructs a DokuWikiClient and invokes its methods.  SpecCli is one    *)
(* run of the command-line tool: optparse consumes the argument list from  *)
(* left to right and runs Callback the moment an operation flag is met.    *)
(*                                                                         *)
(* The remote side is the environment: urlopen either succeeds or raises,  *)
(* and every remote procedure call is answered by a value, by an XML-RPC   *)
(* fault or by a transport-level error.                                    *)
(***************************************************************************)
EXTENDS Integers, Sequences, FiniteSets, TLC

(***************************************************************************)
(* Python values.  Every value has the same record shape so that any two   *)
(* can be compared: t is the type tag, s the text of a str, n the number   *)
(* of an int, items the elements of a list and kv the (key, value) pairs   *)
(* of a dict in the order keys() yields them.                              *)
(***************************************************************************)
PyNone == [t |-> "none", s |-> "", n |-> 0, items |-> <<>>, kv |-> <<>>]

PyStr(s) == [t |-> "str", s |-> s, n |-> 0, items |-> <<>>, kv |-> <<>>]

PyInt(n) == [t |-> "int", s |-> "", n |-> n, items |-> <<>>, kv |-> <<>>]

PyList(items) == [t |-> "list", s |-> "", n |-> 0, items |-> items, kv |-> <<>>]

PyDict(kv) == [t |-> "dict", s |-> "", n |-> 0, items |-> <<>>, kv |-> kv]

PyBool(b) ==
    [t |-> "bool", s |-> "", n |-> IF b THEN 1 ELSE 0, items |-> <<>>, kv |-> <<>>]

\* Python truth value of v, as tested by "if v" and "not v".
Truthy(v) ==
    CASE v.t = "none" -> FALSE
      [] v.t = "str"  -> v.s # ""
      [] v.t = "int"  -> v.n # 0
      [] v.t = "bool" -> v.n # 0
      [] v.t = "list" -> v.items # <<>>
      [] v.t = "dict" -> v.kv # <<>>

Digit(d) ==
    CASE d = 0 -> "0" [] d = 1 -> "1" [] d = 2 -> "2" [] d = 3 -> "3"
      [] d = 4 -> "4" [] d = 5 -> "5" [] d = 6 -> "6" [] d = 7 -> "7"
      [] d = 8 -> "8" [] d = 9 -> "9"

RECURSIVE NatToStr(_)
NatToStr(n) == IF n < 10 THEN Digit(n) ELSE NatToStr(n \div 10) \o Digit(n % 10)

\* str() of an int
IntToStr(n) == IF n < 0 THEN "-" \o NatToStr(0 - n) ELSE NatToStr(n)

RECURSIVE Join(_, _)
\* sep.join(strs)
Join(strs, sep) ==
    IF strs = <<>> THEN ""
    ELSE IF Len(strs) = 1 THEN strs[1]
    ELSE strs[1] \o sep \o Join(Tail(strs), sep)

RECURSIVE Repr(_)
\* repr() of a value
Repr(v) ==
    CASE v.t = "none" -> "None"
      [] v.t = "str"  -> "'" \o v.s \o "'"
      [] v.t = "int"  -> IntToStr(v.n)
      [] v.t = "bool" -> IF v.n # 0 THEN "True" ELSE "False"
      [] v.t = "list" ->
            "[" \o Join([i \in 1..Len(v.items) |-> Repr(v.items[i])], ", ") \o "]"
      [] v.t = "dict" ->
            "{" \o Join([i \in 1..Len(v.kv) |->
                           "'" \o v.kv[i][1] \o "': " \o Repr(v.kv[i][2])], ", ")
                \o "}"

\* str() of a value, which is what print and '%s' write
Str(v) == IF v.t = "str" THEN v.s ELSE Repr(v)

(***************************************************************************)
(* The remote side.                                                        *)
(***************************************************************************)
\* One interaction with the network: an HTTP open or a remote procedure call.
Event(proc, args) == [proc |-> proc, args |-> args]

\* What a remote procedure call is answered with.
AnswerOk(v) == [kind |-> "ok", value |-> v, faultCode |-> 0, faultString |-> ""]

AnswerFault(c, m) ==
    [kind |-> "fault", value |-> PyNone, faultCode |-> c, faultString |-> m]

AnswerProtocolError ==
    [kind |-> "protocolerror", value |-> PyNone, faultCode |-> 0, faultString |-> ""]

\* What a caller observes of a call: a returned value or a raised exception.
\* An exception carries the fields its class gives it: faultCode and
\* faultString for xmlrpclib.Fault, page_id and message for the DokuWiki errors.
Return(v) ==
    [kind |-> "return", exc |-> "", value |-> v,
     faultCode |-> 0, faultString |-> "", page_id |-> 0, message |-> ""]

Raised(exc) ==
    [kind |-> "raise", exc |-> exc, value |-> PyNone,
     faultCode |-> 0, faultString |-> "", page_id |-> 0, message |-> ""]

Fault(c, m) == [Raised("Fault") EXCEPT !.faultCode = c, !.faultString = m]

\* An operation's effect: the network events it caused, in order, and its outcome.
Effect(calls, outcome) == [calls |-> calls, outcome |-> outcome]

\* self._xmlrpc.<proc>(*args): one request, answered by answer.
XmlrpcCall(proc, args, answer) ==
    Effect(<<Event(proc, args)>>,
           CASE answer.kind = "ok"    -> Return(answer.value)
             [] answer.kind = "fault" -> Fault(answer.faultCode, answer.faultString)
             [] OTHER                 -> Raised("ProtocolError"))

(***************************************************************************)
(* The error classes.                                                      *)
(***************************************************************************)
\* A variant that does not recognise the fault: the code is lost.
DokuWikiXMLRPCError_Unrecognised(obj) ==
    [Raised("DokuWikiXMLRPCError") EXCEPT !.page_id = 0, !.message = obj.faultString]

\* DokuWikiXMLRPCError.__init__(obj), obj being the exception passed in
DokuWikiXMLRPCError(obj) ==
    IF obj.exc = "Fault"
    THEN [Raised("DokuWikiXMLRPCError") EXCEPT
            !.page_id = obj.faultCode, !.message = obj.faultString]
    ELSE [Raised("DokuWikiXMLRPCError") EXCEPT
            !.page_id = 0, !.message = obj.message]

\* DokuWikiURLError.__init__(url)
DokuWikiURLError(url) == [Raised("DokuWikiURLError") EXCEPT !.message = url]

\* __str__ of the two error classes
ErrorStr(e) ==
    IF e.exc = "DokuWikiXMLRPCError"
    THEN "<DokuWikiXMLRPCError " \o IntToStr(e.page_id) \o ": '" \o e.message \o "'>"
    ELSE "DokuWikiURLError: Could not connect to <" \o e.message \o ">"

(***************************************************************************)
(* DokuWikiClient.  srv is the sequence of answers the remote side gives   *)
(* to the successive requests of one operation.                            *)
(***************************************************************************)
\* A variant that sends the request a second time when the first one faults.
TryCall_Retry(proc, args, srv) ==
    LET r1 == XmlrpcCall(proc, args, srv[1])
        r2 == XmlrpcCall(proc, args, srv[2])
    IN  IF r1.outcome.kind = "raise" /\ r1.outcome.exc = "Fault"
        THEN IF r2.outcome.kind = "raise" /\ r2.outcome.exc = "Fault"
             THEN Effect(r1.calls \o r2.calls, DokuWikiXMLRPCError(r2.outcome))
             ELSE Effect(r1.calls \o r2.calls, r2.outcome)
        ELSE r1

\* The body shared by every remote-operation method:
\*     try: return self._xmlrpc.<proc>(*args)
\*     except xmlrpclib.Fault, fault: raise DokuWikiXMLRPCError(fault)
TryCall(proc, args, srv) ==
    LET r == XmlrpcCall(proc, args, srv[1])
    IN  IF r.outcome.kind = "raise" /\ r.outcome.exc = "Fault"
        THEN Effect(r.calls, DokuWikiXMLRPCError(r.outcome))
        ELSE r

\* urlopen(url): open is what happens to the request
UrlOpen(url, open) ==
    Effect(<<Event("urlopen", <<PyStr(url)>>)>>,
           IF open = "ok" THEN Return(PyNone) ELSE Raised(open))

_xmlrpc_init(url, open) ==
    LET r == UrlOpen(url \o "/lib/exe/xmlrpc.php?", open)
    IN  IF r.outcome.kind = "raise" /\ r.outcome.exc \in {"ValueError", "HTTPError"}
        THEN Effect(r.calls, DokuWikiURLError(url))
        ELSE r

_dokuwiki_version(srv) == TryCall("dokuwiki.getVersion", <<>>, srv)

\* DokuWikiClient.__init__(url, user, passwd): the effect of constructing a
\* client; obj is the constructed object when no exception is raised.
\* opens are the outcomes of the successive HTTP opens.
NoClient ==
    [constructed |-> FALSE, url |-> "", user |-> "", passwd |-> "",
     dokuwiki_version |-> PyNone]

DokuWikiClient(url, user, passwd, opens, srv) ==
    LET i1 == _xmlrpc_init(url, opens[1])
        i2 == _xmlrpc_init(url, opens[2])
        v  == _dokuwiki_version(srv)
        vo == IF v.outcome.kind = "raise" /\ v.outcome.exc = "Fault"
              THEN DokuWikiXMLRPCError(v.outcome) ELSE v.outcome
    IN  IF i1.outcome.kind = "raise"
        THEN [calls |-> i1.calls, outcome |-> i1.outcome, obj |-> NoClient]
        ELSE IF i2.outcome.kind = "raise"
        THEN [calls |-> i1.calls \o i2.calls, outcome |-> i2.outcome, obj |-> NoClient]
        ELSE IF vo.kind = "raise"
        THEN [calls |-> i1.calls \o i2.calls \o v.calls, outcome |-> vo,
              obj |-> NoClient]
        ELSE [calls |-> i1.calls \o i2.calls \o v.calls, outcome |-> Return(PyNone),
              obj |-> [constructed |-> TRUE, url |-> url, user |-> user,
                       passwd |-> passwd, dokuwiki_version |-> vo.value]]

rpc_version_supported(srv) == TryCall("wiki.getRPCVersionSupported", <<>>, srv)

page(page_id, revision, srv) ==
    IF ~Truthy(revision)
    THEN TryCall("wiki.getPage", <<page_id>>, srv)
    ELSE TryCall("wiki.getPageVersion", <<page_id, revision>>, srv)

page_versions(page_id, offset, srv) ==
    TryCall("wiki.getPageVersions", <<page_id, offset>>, srv)

page_info(page_id, revision, srv) ==
    IF ~Truthy(revision)
    THEN TryCall("wiki.getPageInfo", <<page_id>>, srv)
    ELSE TryCall("wiki.getPageInfoVersion", <<page_id, revision>>, srv)

page_html(page_id, revision, srv) ==
    IF ~Truthy(revision)
    THEN TryCall("wiki.getPageHTML", <<page_id>>, srv)
    ELSE TryCall("wiki.getPageHTMLVersion", <<page_id, revision>>, srv)

\* The result of the remote call is dropped: the method has no return.
put_page(page_id, text, summary, minor, srv) ==
    LET params == PyDict(<<<<"sum", summary>>, <<"minor", minor>>>>)
        r == TryCall("wiki.putPage", <<page_id, text, params>>, srv)
    IN  IF r.outcome.kind = "return" THEN Effect(r.calls, Return(PyNone)) ELSE r

all_pages(srv) == TryCall("wiki.getAllPages", <<>>, srv)

backlinks(page_id, srv) == TryCall("wiki.getBackLinks", <<page_id>>, srv)

links(page_id, srv) == TryCall("wiki.listLinks", <<page_id>>, srv)

recent_changes(timestamp, srv) == TryCall("wiki.getRecentChanges", <<timestamp>>, srv)

acl_check(page_id, srv) == TryCall("wiki.aclCheck", <<page_id>>, srv)

put_file(namespace, filename, name, overwrite) == Effect(<<>>, Return(PyNone))

list_files(namespace) == Effect(<<>>, Return(PyNone))

(***************************************************************************)
(* The command-line front end: main's option table, then Callback.         *)
(***************************************************************************)
StoreFlags == {"-u", "-w", "-p"}

CallbackFlags ==
    {"--raw", "--html", "--info", "--changes", "--revisions", "--backlinks",
     "--allpages", "--links"}

\* dest of each option added by main
Dest(flag) ==
    CASE flag = "-u"          -> "user"
      [] flag = "-w"          -> "wiki"
      [] flag = "-p"          -> "passwd"
      [] flag = "--raw"       -> "page"
      [] flag = "--html"      -> "page_html"
      [] flag = "--info"      -> "page_info"
      [] flag = "--changes"   -> "recent_changes"
      [] flag = "--revisions" -> "page_versions"
      [] flag = "--backlinks" -> "backlinks"
      [] flag = "--allpages"  -> "all_pages"
      [] flag = "--links"     -> "links"
      [] flag = "--time"      -> "timestamp"

\* The usage text set by main, as get_usage() renders it.
Usage ==
    "Usage: dokuwikixmlrpc.py -u <username> -w <wikiurl> -p <passwd> [options] [wiki:page]\n"

\* parser.error(msg): the usage and the message on stderr, then SystemExit.
ParserError(msg) == <<Usage, "dokuwikixmlrpc.py: error: " \o msg \o "\n">>

\* What the interpreter writes for an exception nothing catches.
Traceback(e) == <<"Traceback (most recent call last): " \o e.exc>>

\* type = 'int' of --time: the argument texts int() accepts, and their values.
IntTexts == {"0", "5"}

ParseInt(text) == CASE text = "0" -> 0 [] text = "5" -> 5

\* The characters of a str, which is what iterating over it yields.
Chars(s) ==
    CASE s = ""     -> <<>>
      [] s = "text" -> <<"t", "e", "x", "t">>

\* for item in data: whether data can be iterated, and the items it yields.
Iterable(data) == data.t \in {"list", "str", "dict"}

Items(data) ==
    CASE data.t = "list" -> data.items
      [] data.t = "str"  -> [i \in 1..Len(Chars(data.s)) |-> PyStr(Chars(data.s)[i])]
      [] data.t = "dict" -> [i \in 1..Len(data.kv) |-> PyStr(data.kv[i][1])]

\* for key in d.keys(): print '%s: %s' % (key, d[key])
KeyLines(d) == [i \in 1..Len(d.kv) |-> d.kv[i][1] \o ": " \o Str(d.kv[i][2])]

\* What the printing part of the callback wrote to stdout, and the exception
\* that stopped it ("" when it ran to its end).
Written(out, exc) == [out |-> out, exc |-> exc]

RECURSIVE PrintRows(_)
\* for item in data: (for key in item.keys(): print ...); print "\n"
PrintRows(items) ==
    IF items = <<>> THEN Written(<<>>, "")
    ELSE IF Head(items).t # "dict" THEN Written(<<>>, "AttributeError")
    ELSE LET rest == PrintRows(Tail(items))
         IN  Written(KeyLines(Head(items)) \o <<"\n">> \o rest.out, rest.exc)

\* A variant of the output part below that prints a list whole, as it
\* prints a scalar.
Output_ListAsPlain(data, format) ==
    IF ~Truthy(data) THEN Written(<<>>, "")
    ELSE CASE format \in {"plain", "list"} -> Written(<<Str(data)>>, "")
           [] format = "dict" ->
                IF data.t = "list" THEN PrintRows(data.items)
                ELSE IF data.t = "dict" THEN Written(KeyLines(data), "")
                ELSE Written(<<>>, "AttributeError")
           [] OTHER -> Written(<<>>, "")

\* The output part of Callback.__init__: if data: ... print ...
Output(data, format) ==
    IF ~Truthy(data) THEN Written(<<>>, "")
    ELSE CASE format = "plain" -> Written(<<Str(data)>>, "")
           [] format = "list" ->
                IF Iterable(data)
                THEN Written([i \in 1..Len(Items(data)) |-> Str(Items(data)[i])], "")
                ELSE Written(<<>>, "TypeError")
           [] format = "dict" ->
                IF data.t = "list" THEN PrintRows(data.items)
                ELSE IF data.t = "dict" THEN Written(KeyLines(data), "")
                ELSE Written(<<>>, "AttributeError")
           [] OTHER -> Written(<<>>, "")

\* Callback._get_page_id: pops the last of the arguments still to be
\* processed; with none left, parser.error ends the run.
_get_page_id(ra) ==
    IF ra = <<>>
    THEN [ok |-> FALSE, page_id |-> PyNone, rargs |-> ra]
    ELSE [ok |-> TRUE, page_id |-> PyStr(ra[Len(ra)]), rargs |-> SubSeq(ra, 1, Len(ra) - 1)]

\* Callback.dispatch(option): the effect of the client method called, the
\* format of its result, and what is left of rargs and values.  exit tells
\* that parser.error ended the run before any method was called.
Dispatched(r, format, ra, vals) ==
    [calls |-> r.calls, outcome |-> r.outcome, format |-> format,
     rargs |-> ra, values |-> vals, exit |-> FALSE]

NoPage(ra, vals) ==
    [calls |-> <<>>, outcome |-> Raised("SystemExit"), format |-> "",
     rargs |-> ra, values |-> vals, exit |-> TRUE]

dispatch(option, vals, ra, srv, now) ==
    LET g == _get_page_id(ra)
    IN  CASE option \in {"page", "page_html"} ->
               IF ~g.ok THEN NoPage(ra, vals)
               ELSE LET rev == IF ~Truthy(vals.timestamp) THEN PyNone
                               ELSE vals.timestamp
                    IN  Dispatched(IF option = "page"
                                   THEN page(g.page_id, rev, srv)
                                   ELSE page_html(g.page_id, rev, srv),
                                   "plain", g.rargs, vals)
          [] option = "backlinks" ->
               IF ~g.ok THEN NoPage(ra, vals)
               ELSE Dispatched(backlinks(g.page_id, srv), "list", g.rargs, vals)
          [] option \in {"page_info", "page_versions", "links"} ->
               IF ~g.ok THEN NoPage(ra, vals)
               ELSE Dispatched(CASE option = "page_info" ->
                                      page_info(g.page_id, PyNone, srv)
                                 [] option = "page_versions" ->
                                      page_versions(g.page_id, PyInt(0), srv)
                                 [] option = "links" -> links(g.page_id, srv),
                               "dict", g.rargs, vals)
          [] option = "all_pages" ->
               Dispatched(all_pages(srv), "list", ra, vals)
          [] option = "recent_changes" ->
               LET v2 == IF ~Truthy(vals.timestamp)
                         THEN [vals EXCEPT !.timestamp = PyInt(now)] ELSE vals
               IN  Dispatched(recent_changes(v2.timestamp, srv), "dict", ra, v2)

\* The variant of the test below that is content with any one of the three.
CredentialsGiven_AnyOne(vals) ==
    Truthy(vals.user) \/ Truthy(vals.wiki) \/ Truthy(vals.passwd)

\* if parser.values.user and parser.values.wiki and parser.values.passwd
CredentialsGiven(vals) ==
    Truthy(vals.user) /\ Truthy(vals.wiki) /\ Truthy(vals.passwd)

\* A variant of the handler below that catches DokuWikiXMLRPCError alone.
OnConstructionError_XMLRPCOnly(e) ==
    IF e.exc = "DokuWikiXMLRPCError"
    THEN [status |-> "exit", err |-> ParserError(ErrorStr(e))]
    ELSE [status |-> "crashed", err |-> Traceback(e)]

\* The except clauses around the construction of the client: the two
\* DokuWiki errors go to parser.error, anything else is not caught.
OnConstructionError(e) ==
    IF e.exc \in {"DokuWikiXMLRPCError", "DokuWikiURLError"}
    THEN [status |-> "exit", err |-> ParserError(ErrorStr(e))]
    ELSE [status |-> "crashed", err |-> Traceback(e)]

\* What Callback.__init__ did: whether it went on to construct a client, how
\* the construction ended, whether dispatch called a client method, how that
\* ended, and in which format its result was to be written.
Did(constructed, construction, dispatched, result, format) ==
    [constructed |-> constructed, construction |-> construction,
     dispatched |-> dispatched, result |-> result, format |-> format]

\* Callback.__init__(option, opt_str, value, parser), run by optparse when it
\* meets an operation flag.  env is the remote side and the clock: the
\* outcomes of the HTTP opens, the answers to the handshake (ver) and to the
\* operation (srv), and the value of int(time()).
Callback(option, vals, ra, env) ==
    IF ~CredentialsGiven(vals)
    THEN [net |-> <<>>, out |-> <<Usage>>, err |-> <<>>, rargs |-> ra,
          values |-> vals, status |-> "parsing",
          did |-> Did(FALSE, Return(PyNone), FALSE, Return(PyNone), "")]
    ELSE
    LET c == DokuWikiClient(vals.wiki.s, vals.user.s, vals.passwd.s,
                            env.opens, env.ver)
        h == OnConstructionError(c.outcome)
        d == dispatch(option, vals, ra, env.srv, env.now)
        w == Output(d.outcome.value, d.format)
    IN  IF c.outcome.kind = "raise"
        THEN [net |-> c.calls, out |-> <<>>, err |-> h.err, rargs |-> ra,
              values |-> vals, status |-> h.status,
              did |-> Did(TRUE, c.outcome, FALSE, Return(PyNone), "")]
        ELSE IF d.exit
        THEN [net |-> c.calls, out |-> <<>>,
              err |-> ParserError("You have to specify a Wiki page."),
              rargs |-> d.rargs, values |-> d.values, status |-> "exit",
              did |-> Did(TRUE, c.outcome, FALSE, d.outcome, "")]
        ELSE IF d.outcome.kind = "raise"
        THEN [net |-> c.calls \o d.calls, out |-> <<>>,
              err |-> Traceback(d.outcome),
              rargs |-> d.rargs, values |-> d.values, status |-> "crashed",
              did |-> Did(TRUE, c.outcome, TRUE, d.outcome, d.format)]
        ELSE [net |-> c.calls \o d.calls, out |-> w.out,
              err |-> IF w.exc = "" THEN <<>> ELSE Traceback(Raised(w.exc)),
              rargs |-> d.rargs, values |-> d.values,
              status |-> IF w.exc = "" THEN "parsing" ELSE "crashed",
              did |-> Did(TRUE, c.outcome, TRUE, d.outcome, d.format)]

(***************************************************************************)
(* State.                                                                  *)
(*                                                                         *)
(* Library use (SpecClient):                                               *)
(*   obj      the caller's DokuWikiClient, if one has been constructed     *)
(*   lastOp   the operation the caller invoked last, with its arguments    *)
(*            (PyNone stands for an omitted optional argument)             *)
(*   offered  what the remote side had in store for that operation: the    *)
(*            outcomes of the HTTP opens and the answers to the requests   *)
(*   trace    the network events that operation caused, in order           *)
(*   outcome  what the caller observed of it                               *)
(*                                                                         *)
(* Command line (SpecCli):                                                 *)
(*   rargs    optparse's list of arguments still to be processed           *)
(*   largs    the positional arguments optparse has set aside              *)
(*   values   parser.values: user, wiki, passwd, timestamp                 *)
(*   status   "parsing", "done" (parse_args returned), "exit" (SystemExit  *)
(*            from parser.error) or "crashed" (uncaught exception)         *)
(*   stdout, stderr  what the run has written, one entry per write         *)
(*   net      the network events of the run, in order                      *)
(*   seen     the options processed so far, each with its argument         *)
(*   did      what the callback of the option processed last did (see Did) *)
(***************************************************************************)
VARIABLES obj, lastOp, offered, trace, outcome,
          rargs, largs, values, status, stdout, stderr, net, seen, did

clientVars == <<obj, lastOp, offered, trace, outcome>>

cliVars == <<rargs, largs, values, status, stdout, stderr, net, seen, did>>

vars == <<obj, lastOp, offered, trace, outcome,
          rargs, largs, values, status, stdout, stderr, net, seen, did>>

(***************************************************************************)
(* The inputs and the remote side's behaviours that are explored.          *)
(***************************************************************************)
WellFormedUrls == {"http://wiki"}

Urls == WellFormedUrls \cup {"wiki"}

Users == {"bob"}

Passwds == {"pw"}

\* urlopen raises ValueError on a URL without a scheme; a well-formed URL is
\* served, answered with an HTTP error status (HTTPError) or not connected
\* to at all (URLError: unknown host, connection refused).
OpenOutcomes(url) ==
    IF url \in WellFormedUrls THEN {"ok", "HTTPError", "URLError"} ELSE {"ValueError"}

PageIds == {PyStr("start")}

Revisions == {PyNone, PyInt(0), PyInt(5)}

ResponseValues ==
    { PyStr(""), PyStr("text"), PyInt(0), PyInt(7), PyBool(TRUE),
      PyList(<<>>), PyList(<<PyStr("a"), PyStr("b")>>),
      PyDict(<<>>), PyDict(<<<<"name", PyStr("start")>>, <<"version", PyInt(5)>>>>),
      PyList(<<PyDict(<<<<"user", PyStr("bob")>>>>),
               PyDict(<<<<"version", PyInt(5)>>>>)>>) }

FaultCodes == {0, 403}

FaultStrings == {"denied"}

Answers ==
    {AnswerOk(v) : v \in ResponseValues}
    \cup {AnswerFault(c, m) : c \in FaultCodes, m \in FaultStrings}
    \cup {AnswerProtocolError}

\* What the remote side would answer to a second request of the same operation.
SecondAnswers == {AnswerOk(PyStr("text"))}

Servers == {<<a, b>> : a \in Answers, b \in SecondAnswers}

\* The remote side's answers to the version handshake.
VersionAnswers ==
    {AnswerOk(PyStr("2009-02-14"))}
    \cup {AnswerFault(c, m) : c \in FaultCodes, m \in FaultStrings}
    \cup {AnswerProtocolError}

VersionServers == {<<a, b>> : a \in VersionAnswers, b \in SecondAnswers}

\* int(time())
ClockValues == {1700000000}

\* The remote side and the clock as one construction followed by one
\* operation meet them: the outcomes of the two HTTP opens, the answers to
\* the handshake (ver) and to the operation (srv), and the time.  A part
\* that is never consulted, because an earlier part fails, is held fixed.
Env(opens, ver, srv, now) == [opens |-> opens, ver |-> ver, srv |-> srv, now |-> now]

VersionOk == <<AnswerOk(PyStr("2009-02-14")), AnswerOk(PyStr("text"))>>

ServerOk == <<AnswerOk(PyStr("text")), AnswerOk(PyStr("text"))>>

Envs(url) ==
    LET failures == OpenOutcomes(url) \ {"ok"}
        reachable == "ok" \in OpenOutcomes(url)
        now0 == CHOOSE n \in ClockValues : TRUE
    IN  {Env(<<o, o>>, VersionOk, ServerOk, now0) : o \in failures}
        \cup (IF reachable
              THEN {Env(<<"ok", o>>, VersionOk, ServerOk, now0) : o \in failures}
                   \cup {Env(<<"ok", "ok">>, v, ServerOk, now0) :
                           v \in {w \in VersionServers : w[1].kind # "ok"}}
                   \cup {Env(<<"ok", "ok">>, v, srv, now) :
                           v \in {w \in VersionServers : w[1].kind = "ok"},
                           srv \in Servers, now \in ClockValues}
              ELSE {})

NoOp == [name |-> "", args |-> <<>>]

NoOffer == [opens |-> <<>>, srv |-> <<>>]

NoDid == Did(FALSE, Return(PyNone), FALSE, Return(PyNone), "")

NoValues == [user |-> PyNone, wiki |-> PyNone, passwd |-> PyNone, timestamp |-> PyNone]

IdleClient ==
    /\ obj = NoClient
    /\ lastOp = NoOp
    /\ offered = NoOffer
    /\ trace = <<>>
    /\ outcome = Return(PyNone)

IdleCli ==
    /\ rargs = <<>>
    /\ largs = <<>>
    /\ values = NoValues
    /\ status = "done"
    /\ stdout = <<>>
    /\ stderr = <<>>
    /\ net = <<>>
    /\ seen = <<>>
    /\ did = NoDid

(***************************************************************************)
(* SpecClient: a caller of the library.                                    *)
(***************************************************************************)
InitClient == IdleClient /\ IdleCli

\* The caller invokes a method of its client and observes the effect r.
Observe(name, args, srv, r) ==
    /\ obj.constructed
    /\ lastOp' = [name |-> name, args |-> args]
    /\ offered' = [opens |-> <<>>, srv |-> srv]
    /\ trace' = r.calls
    /\ outcome' = r.outcome
    /\ UNCHANGED obj
    /\ UNCHANGED cliVars

\* client = DokuWikiClient(url, user, passwd); a failed construction leaves
\* the caller with the client it had.
New ==
    \E url \in Urls, user \in Users, passwd \in Passwds :
      \E env \in Envs(url) :
        LET r == DokuWikiClient(url, user, passwd, env.opens, env.ver)
        IN  /\ lastOp' = [name |-> "__init__",
                          args |-> <<PyStr(url), PyStr(user), PyStr(passwd)>>]
            /\ offered' = [opens |-> env.opens, srv |-> env.ver]
            /\ trace' = r.calls
            /\ outcome' = r.outcome
            /\ obj' = IF r.outcome.kind = "return" THEN r.obj ELSE obj
            /\ UNCHANGED cliVars

Call_rpc_version_supported ==
    \E srv \in Servers :
      Observe("rpc_version_supported", <<>>, srv, rpc_version_supported(srv))

Call_page ==
    \E page_id \in PageIds, revision \in Revisions, srv \in Servers :
      Observe("page", <<page_id, revision>>, srv, page(page_id, revision, srv))

Call_page_versions ==
    \E page_id \in PageIds, offset \in {PyInt(0), PyInt(5)}, srv \in Servers :
      Observe("page_versions", <<page_id, offset>>, srv,
              page_versions(page_id, offset, srv))

Call_page_info ==
    \E page_id \in PageIds, revision \in Revisions, srv \in Servers :
      Observe("page_info", <<page_id, revision>>, srv,
              page_info(page_id, revision, srv))

Call_page_html ==
    \E page_id \in PageIds, revision \in Revisions, srv \in Servers :
      Observe("page_html", <<page_id, revision>>, srv,
              page_html(page_id, revision, srv))

Call_put_page ==
    \E page_id \in PageIds, text \in {PyStr("text")},
       summary \in {PyStr(""), PyStr("fix")}, minor \in {PyNone, PyBool(TRUE)},
       srv \in Servers :
      Observe("put_page", <<page_id, text, summary, minor>>, srv,
              put_page(page_id, text, summary, minor, srv))

Call_all_pages ==
    \E srv \in Servers : Observe("all_pages", <<>>, srv, all_pages(srv))

Call_backlinks ==
    \E page_id \in PageIds, srv \in Servers :
      Observe("backlinks", <<page_id>>, srv, backlinks(page_id, srv))

Call_links ==
    \E page_id \in PageIds, srv \in Servers :
      Observe("links", <<page_id>>, srv, links(page_id, srv))

Call_recent_changes ==
    \E timestamp \in {PyInt(0), PyInt(5)}, srv \in Servers :
      Observe("recent_changes", <<timestamp>>, srv, recent_changes(timestamp, srv))

Call_acl_check ==
    \E page_id \in PageIds, srv \in Servers :
      Observe("acl_check", <<page_id>>, srv, acl_check(page_id, srv))

Call_put_file ==
    \E srv \in Servers :
      Observe("put_file", <<PyStr("ns"), PyStr("f.png"), PyStr(""), PyNone>>, srv,
              put_file(PyStr("ns"), PyStr("f.png"), PyStr(""), PyNone))

Call_list_files ==
    \E srv \in Servers :
      Observe("list_files", <<PyStr("ns")>>, srv, list_files(PyStr("ns")))

NextClient ==
    \/ New
    \/ Call_rpc_version_supported
    \/ Call_page
    \/ Call_page_versions
    \/ Call_page_info
    \/ Call_page_html
    \/ Call_put_page
    \/ Call_all_pages
    \/ Call_backlinks
    \/ Call_links
    \/ Call_recent_changes
    \/ Call_acl_check
    \/ Call_put_file
    \/ Call_list_files

SpecClient == InitClient /\ [][NextClient]_vars

(***************************************************************************)
(* SpecCli: one run of the command-line tool.  The run starts in main with *)
(* the command line in rargs; parse_args then processes it from the left.  *)
(***************************************************************************)
\* The longest tail of a command line that is explored, in words (an option
\* with its argument is one word).
MaxWords == 2

\* The command lines explored: a head of credentials followed by a tail.
Heads ==
    { <<>>,
      <<"-u", "bob", "-w", "http://wiki">>,
      <<"-u", "bob", "-w", "http://wiki", "-p", "pw">>,
      <<"-u", "bob", "-w", "http://wiki", "-p", "pw", "--time", "5">>,
      <<"-u", "", "-w", "http://wiki", "-p", "pw">>,
      <<"-u", "bob", "-w", "wiki", "-p", "pw">> }

TailWords ==
    { <<"-p", "pw">>, <<"--time", "5">>, <<"--time", "0">>, <<"--time", "start">>,
      <<"start">> }
    \cup {<<f>> : f \in CallbackFlags}

Tails == UNION {[1..n -> TailWords] : n \in 0..MaxWords}

RECURSIVE Flatten(_)
Flatten(words) == IF words = <<>> THEN <<>> ELSE Head(words) \o Flatten(Tail(words))

InitCli ==
    /\ IdleClient
    /\ \E h \in Heads, t \in Tails : rargs = h \o Flatten(t)
    /\ largs = <<>>
    /\ values = NoValues
    /\ status = "parsing"
    /\ stdout = <<>>
    /\ stderr = <<>>
    /\ net = <<>>
    /\ seen = <<>>
    /\ did = NoDid

Option(opt, arg) == [opt |-> opt, arg |-> arg]

\* parse_args has an option or an argument to process.
Parsing == status = "parsing" /\ rargs # <<>>

\* -u, -w, -p (action "store"): the next argument, whatever it is, becomes
\* the value; with no argument left parser.error ends the run.
ProcessStore ==
    /\ Parsing
    /\ Head(rargs) \in StoreFlags
    /\ IF Len(rargs) < 2
       THEN /\ status' = "exit"
            /\ stderr' = stderr \o ParserError(Head(rargs) \o " option requires an argument")
            /\ rargs' = Tail(rargs)
            /\ seen' = Append(seen, Option(Head(rargs), ""))
            /\ UNCHANGED values
       ELSE /\ values' = [values EXCEPT ![Dest(Head(rargs))] = PyStr(rargs[2])]
            /\ rargs' = Tail(Tail(rargs))
            /\ seen' = Append(seen, Option(Head(rargs), rargs[2]))
            /\ UNCHANGED <<status, stderr>>
    /\ did' = NoDid
    /\ UNCHANGED <<largs, stdout, net>>
    /\ UNCHANGED clientVars

\* --time (action "store", type "int"): as above, and the argument has to be
\* the text of an integer.
ProcessTime ==
    /\ Parsing
    /\ Head(rargs) = "--time"
    /\ IF Len(rargs) < 2
       THEN /\ status' = "exit"
            /\ stderr' = stderr \o ParserError("--time option requires an argument")
            /\ rargs' = Tail(rargs)
            /\ seen' = Append(seen, Option("--time", ""))
            /\ UNCHANGED values
       ELSE IF rargs[2] \notin IntTexts
       THEN /\ status' = "exit"
            /\ stderr' = stderr \o ParserError("option --time: invalid integer value: '"
                                               \o rargs[2] \o "'")
            /\ rargs' = Tail(Tail(rargs))
            /\ seen' = Append(seen, Option("--time", rargs[2]))
            /\ UNCHANGED values
       ELSE /\ values' = [values EXCEPT !.timestamp = PyInt(ParseInt(rargs[2]))]
            /\ rargs' = Tail(Tail(rargs))
            /\ seen' = Append(seen, Option("--time", rargs[2]))
            /\ UNCHANGED <<status, stderr>>
    /\ did' = NoDid
    /\ UNCHANGED <<largs, stdout, net>>
    /\ UNCHANGED clientVars

\* An operation flag (action "callback"): Callback runs at once, with the
\* values set so far and the arguments that follow the flag.
ProcessCallback ==
    /\ Parsing
    /\ Head(rargs) \in CallbackFlags
    /\ \E env \in Envs(IF values.wiki.t = "str" THEN values.wiki.s ELSE "") :
         LET r == Callback(Dest(Head(rargs)), values, Tail(rargs), env)
         IN  /\ net' = net \o r.net
             /\ stdout' = stdout \o r.out
             /\ stderr' = stderr \o r.err
             /\ rargs' = r.rargs
             /\ values' = r.values
             /\ status' = r.status
             /\ did' = r.did
    /\ seen' = Append(seen, Option(Head(rargs), ""))
    /\ UNCHANGED largs
    /\ UNCHANGED clientVars

\* Anything else is a positional argument, set aside in largs.
ProcessPositional ==
    /\ Parsing
    /\ Head(rargs) \notin StoreFlags \cup CallbackFlags \cup {"--time"}
    /\ largs' = Append(largs, Head(rargs))
    /\ rargs' = Tail(rargs)
    /\ did' = NoDid
    /\ UNCHANGED <<values, status, stdout, stderr, net, seen>>
    /\ UNCHANGED clientVars

\* parse_args returns, and main with it.
ParseDone ==
    /\ status = "parsing"
    /\ rargs = <<>>
    /\ status' = "done"
    /\ UNCHANGED <<rargs, largs, values, stdout, stderr, net, seen, did>>
    /\ UNCHANGED clientVars

NextCli ==
    \/ ProcessStore
    \/ ProcessTime
    \/ ProcessCallback
    \/ ProcessPositional
    \/ ParseDone

SpecCli == InitCli /\ [][NextCli]_vars

(***************************************************************************)
(* Properties of the library (SpecClient).                                 *)
(***************************************************************************)
RemoteMethods ==
    {"rpc_version_supported", "page", "page_versions", "page_info", "page_html",
     "put_page", "all_pages", "backlinks", "links", "recent_changes", "acl_check"}

\* The number of events of trace that are HTTP opens.
OpensIn(t) == Cardinality({i \in 1..Len(t) : t[i].proc = "urlopen"})

\* The events of t that are remote procedure calls, in order.
RpcsIn(t) == SelectSeq(t, LAMBDA e : e.proc # "urlopen")

\* The last operation sent a request and the remote side answered it by a fault.
FaultAnswered ==
    /\ lastOp.name \in RemoteMethods \cup {"__init__"}
    /\ RpcsIn(trace) # <<>>
    /\ offered.srv[1].kind = "fault"

\* C1: every remote-operation method returns to its caller exactly the value
\* the remote procedure answered with, whenever the answer is not a fault.
C1_ReturnsResponseUnmodified ==
    (lastOp.name \in RemoteMethods /\ offered.srv[1].kind = "ok")
        => outcome = Return(offered.srv[1].value)

\* C2: when the remote side answers a request by a fault (c, m), in the
\* version handshake of the constructor or in a remote-operation method, the
\* caller observes a DokuWikiXMLRPCError with page_id = c and message = m:
\* no value is returned and no xmlrpclib.Fault escapes.
C2_FaultSurfacesAsTypedError ==
    FaultAnswered =>
        /\ outcome.kind = "raise"
        /\ outcome.exc = "DokuWikiXMLRPCError"
        /\ outcome.page_id = offered.srv[1].faultCode
        /\ outcome.message = offered.srv[1].faultString

\* The handshake of a construction was answered by fault 403.
C2_HandshakeFaultObserved ==
    /\ lastOp.name = "__init__"
    /\ FaultAnswered
    /\ offered.srv[1].faultCode = 403
    /\ outcome.exc = "DokuWikiXMLRPCError"

\* C3: constructing a client against a reachable endpoint performs exactly
\* one HTTP open of the endpoint and exactly one dokuwiki.getVersion call,
\* the open first.
C3_OneCheckThenOneHandshake ==
    (/\ lastOp.name = "__init__"
     /\ \A i \in 1..OpensIn(trace) : offered.opens[i] = "ok")
        => /\ Len(trace) = 2
           /\ trace[1].proc = "urlopen"
           /\ trace[2].proc = "dokuwiki.getVersion"

\* C4: when the reachability check of a construction fails, in whichever way
\* (ValueError, HTTPError, URLError), the construction raises DokuWikiURLError
\* carrying the supplied URL and no version handshake is attempted.
C4_UnreachableRaisesURLError ==
    (/\ lastOp.name = "__init__"
     /\ \E i \in 1..OpensIn(trace) : offered.opens[i] # "ok")
        => /\ outcome = DokuWikiURLError(lastOp.args[1].s)
           /\ RpcsIn(trace) = <<>>

\* C6: an invocation of a remote-operation method sends exactly one request;
\* when that request is not answered by a value the method raises, having
\* sent nothing further.
C6_NoRetry ==
    lastOp.name \in RemoteMethods =>
        /\ OpensIn(trace) = 0
        /\ Len(RpcsIn(trace)) = 1
        /\ (offered.srv[1].kind # "ok" => outcome.kind = "raise")

\* page_versions was answered by a fault while a second request would have
\* been answered by a value.
C6_FaultedOnce ==
    /\ lastOp.name = "page_versions"
    /\ offered.srv[1].kind = "fault"
    /\ offered.srv[2].kind = "ok"
    /\ outcome.kind = "raise"
    /\ Len(trace) = 1

Unversioned(name) ==
    CASE name = "page"      -> "wiki.getPage"
      [] name = "page_info" -> "wiki.getPageInfo"
      [] name = "page_html" -> "wiki.getPageHTML"

Versioned(name) ==
    CASE name = "page"      -> "wiki.getPageVersion"
      [] name = "page_info" -> "wiki.getPageInfoVersion"
      [] name = "page_html" -> "wiki.getPageHTMLVersion"

\* C9: page, page_info and page_html call the versioned procedure with
\* (page_id, revision) when a revision is supplied, whatever integer it is
\* (0 included), and the unversioned procedure with page_id alone when the
\* revision is omitted.
C9_RevisionSelectsProcedure ==
    lastOp.name \in {"page", "page_info", "page_html"} =>
        trace = IF lastOp.args[2] = PyNone
                THEN <<Event(Unversioned(lastOp.name), <<lastOp.args[1]>>)>>
                ELSE <<Event(Versioned(lastOp.name),
                             <<lastOp.args[1], lastOp.args[2]>>)>>

(***************************************************************************)
(* Properties of the command-line front end (SpecCli).                     *)
(***************************************************************************)
\* The events of t that are remote operations: neither an HTTP open nor the
\* version handshake.
OpRpcs(t) == SelectSeq(t, LAMBDA e : e.proc \notin {"urlopen", "dokuwiki.getVersion"})

\* optparse is about to process an operation flag.
AtCallbackFlag == Parsing /\ Head(rargs) \in CallbackFlags

\* The operation flags whose dispatch takes a page id from the command line.
PageFlags == {"--raw", "--html", "--info", "--revisions", "--backlinks", "--links"}

\* C5 as stated: a run the parser accepts performs exactly one remote
\* operation (the handshake of a constructed client is not counted).
C5_ExactlyOneOperationPerRun ==
    status = "done" => Len(OpRpcs(net)) = 1

\* The operation flag about to be processed has non-empty -u, -w and -p before
\* it, its client gets constructed (in the step taken), and an argument is
\* left for the page id if it needs one.
EffectiveFlag ==
    /\ AtCallbackFlag
    /\ Truthy(values.user) /\ Truthy(values.wiki) /\ Truthy(values.passwd)
    /\ did'.constructed /\ did'.construction.kind = "return"
    /\ (Head(rargs) \in PageFlags => Len(rargs) >= 2)

\* C5 as amended: processing an operation flag that has non-empty -u, -w and
\* -p before it, whose client is constructed and which finds a page id where
\* it needs one, makes exactly one remote operation call; every other step of
\* a run makes none.  A run thus performs one remote operation per such flag:
\* none, one or several.
C5_OneOperationPerEffectiveFlag ==
    [][Len(OpRpcs(net')) = Len(OpRpcs(net)) + (IF EffectiveFlag THEN 1 ELSE 0)]_vars

\* A run that parse_args completed after two remote operations.
C5_TwoOperationsInOneRun ==
    status = "done" /\ Len(OpRpcs(net)) = 2

\* What the claim expects on stdout for a returned value.
ExpectedKeyLines(d) == [i \in 1..Len(d.kv) |-> d.kv[i][1] \o ": " \o Str(d.kv[i][2])]

RECURSIVE ExpectedRows(_, _)
\* The 'key: value' lines of a list of mappings, each mapping followed by sep.
ExpectedRows(items, sep) ==
    IF items = <<>> THEN <<>>
    ELSE ExpectedKeyLines(Head(items)) \o sep \o ExpectedRows(Tail(items), sep)

AllMappings(items) == \A i \in 1..Len(items) : items[i].t = "dict"

\* The callback of the step taken called a client method, which returned.
OperationReturned == AtCallbackFlag /\ did'.dispatched /\ did'.result.kind = "return"

\* What the step taken appended to stdout.
NewOutput == SubSeq(stdout', Len(stdout) + 1, Len(stdout'))

\* C7 as stated: when the remote call of an operation flag succeeds, the
\* returned structure is written to stdout: a scalar as it is, a list one
\* item per line, a mapping or a list of mappings as 'key: value' lines;
\* whatever the value, the empty string, the empty list, the empty mapping
\* and 0 included.  (The blank writes that separate mappings are ignored.)
C7_ResultIsPrinted ==
    [][OperationReturned =>
        LET data == did'.result.value
            format == did'.format
        IN  CASE format = "plain" /\ data.t \in {"str", "int", "bool"} ->
                   NewOutput = <<Str(data)>>
              [] format = "list" /\ data.t = "list" ->
                   NewOutput = [i \in 1..Len(data.items) |-> Str(data.items[i])]
              [] format = "dict" /\ data.t = "dict" ->
                   NewOutput = ExpectedKeyLines(data)
              [] format = "dict" /\ data.t = "list" /\ AllMappings(data.items) ->
                   SelectSeq(NewOutput, LAMBDA line : line # "\n")
                       = ExpectedRows(data.items, <<>>)
              [] OTHER -> TRUE]_vars

\* C7 as amended: a returned value that is not empty and not 0, of the shape
\* the format of its flag handles, is written to stdout: a scalar as it is
\* (format plain), a list one item per line (format list), a mapping as
\* 'key: value' lines and a list of mappings as the 'key: value' lines of
\* each mapping followed by a blank write (format dict).  For an empty
\* string, an empty list, an empty mapping or 0 nothing is written.
C7_NonEmptyResultIsPrinted ==
    [][OperationReturned =>
        LET data == did'.result.value
            format == did'.format
        IN  CASE ~Truthy(data) -> NewOutput = <<>>
              [] format = "plain" /\ data.t \in {"str", "int", "bool"} ->
                   NewOutput = <<Str(data)>>
              [] format = "list" /\ data.t = "list" ->
                   NewOutput = [i \in 1..Len(data.items) |-> Str(data.items[i])]
              [] format = "dict" /\ data.t = "dict" ->
                   NewOutput = ExpectedKeyLines(data)
              [] format = "dict" /\ data.t = "list" /\ AllMappings(data.items) ->
                   NewOutput = ExpectedRows(data.items, <<"\n">>)
              [] OTHER -> TRUE]_vars

\* --raw or --html got the empty string and the run went on, having written
\* nothing.
C7_EmptyPageWritesNothing ==
    /\ did.dispatched
    /\ did.format = "plain"
    /\ did.result = Return(PyStr(""))
    /\ stdout = <<>>
    /\ status \in {"parsing", "done"}

DokuWikiErrors == {"DokuWikiURLError", "DokuWikiXMLRPCError"}

\* C8: when the construction of the client in a callback fails with
\* DokuWikiURLError or DokuWikiXMLRPCError, the run reports the error on
\* stderr and ends there: nothing is dispatched, no remote procedure is called
\* after the failing step, nothing is written to stdout, and no step follows
\* the exit.
C8_ConstructionErrorStopsRun ==
    [][/\ status = "parsing"
       /\ (/\ AtCallbackFlag
           /\ did'.constructed
           /\ did'.construction.kind = "raise"
           /\ did'.construction.exc \in DokuWikiErrors)
          => /\ status' = "exit"
             /\ ~did'.dispatched
             /\ OpRpcs(net') = OpRpcs(net)
             /\ Len(RpcsIn(net')) =
                  Len(RpcsIn(net))
                  + (IF did'.construction.exc = "DokuWikiXMLRPCError" THEN 1 ELSE 0)
             /\ stdout' = stdout
             /\ stderr' = stderr \o ParserError(ErrorStr(did'.construction))]_vars

\* A run that printed the result of one operation and ended on the failed
\* construction of the client of a later flag.
C8_StoppedAfterEarlierResult ==
    /\ status = "exit"
    /\ did.constructed
    /\ did.construction.exc \in DokuWikiErrors
    /\ Len(OpRpcs(net)) = 1
    /\ stdout # <<>>

\* -u, -w and -p have each been processed with a non-empty argument.
CredentialsSeen ==
    \A f \in StoreFlags : \E k \in 1..Len(seen) : seen[k].opt = f /\ seen[k].arg # ""

\* --time has been processed with the integer r as its argument.
TimeSeen(r) ==
    \E k \in 1..Len(seen) :
        /\ seen[k].opt = "--time"
        /\ seen[k].arg \in IntTexts
        /\ PyInt(ParseInt(seen[k].arg)) = r

\* The procedures whose last argument is a revision or a timestamp.
TimedProcs ==
    {"wiki.getPageVersion", "wiki.getPageInfoVersion", "wiki.getPageHTMLVersion",
     "wiki.getRecentChanges"}

\* C10: the callback of an operation flag runs when the flag is processed.
\* It touches the network (reachability check, handshake, operation) only if
\* -u, -w and -p have all been processed before the flag with non-empty
\* arguments; otherwise it writes the usage text and nothing else happens.
\* No other step of the run touches the network.  A revision or timestamp
\* sent with an operation, unless it is the clock's, was given with a --time
\* processed before the flag.
C10_CallbackSeesOnlyWhatPrecedes ==
    [][/\ ~AtCallbackFlag => net' = net
       /\ AtCallbackFlag =>
            /\ net' # net => CredentialsSeen
            /\ ~CredentialsSeen =>
                 /\ net' = net
                 /\ ~did'.constructed
                 /\ stdout' = Append(stdout, Usage)
                 /\ stderr' = stderr
                 /\ status' = "parsing"
            /\ \A i \in (Len(net) + 1)..Len(net') :
                 net'[i].proc \in TimedProcs =>
                   LET r == net'[i].args[Len(net'[i].args)]
                   IN  r.n \notin ClockValues => TimeSeen(r)]_vars

\* A run in which an operation flag came before -p: the three credentials
\* were all given, yet the run only wrote the usage text.
C10_LateCredentialOnlyUsage ==
    /\ status = "done"
    /\ CredentialsSeen
    /\ net = <<>>
    /\ stdout = <<Usage>>
    /\ \E j \in 1..Len(seen), k \in 1..Len(seen) :
         j < k /\ seen[j].opt \in CallbackFlags /\ seen[k].opt = "-p"

=============================================================================
